---- MODULE Spec2Model ----
(***************************************************************************)
(* A model of the retrieval-augmented chat backend of JSAI-Build-a-thon.   *)
(*                                                                         *)
(* Two servers live in the repository:                                    *)
(*   - the session server (src/unnamed/part_000): loadPDF at startup,      *)
(*     retrieveRelevantContent, queryTavily, a per-session BufferMemory    *)
(*     and the /chat handler;                                              *)
(*   - the webapi server (src/infra/packages/webapi/server.js): the same   *)
(*     loadPDF and retrieveRelevantContent, with /chat calling loadPDF on  *)
(*     every RAG request.                                                  *)
(*                                                                         *)
(* A JavaScript string is a sequence of one-character strings.  An async   *)
(* function is cut at its awaits on I/O (the file system, the web search,  *)
(* the completion call): one action per stretch of code that runs before   *)
(* another callback of the event loop can.  An await on the in-memory chat *)
(* history settles in the microtasks of the same callback and cuts nothing.*)
(***************************************************************************)
EXTENDS Integers, Sequences, FiniteSets, TLC

VARIABLES
    \* the document loader (both servers)
    fileState,      \* what is at pdfPath: "present", "absent" or "corrupt"
    docText,        \* the text pdfParse extracts from the file when it parses
    pdfText,        \* let pdfText: <<>> is null, <<t>> is the string t
    pdfChunks,      \* let pdfChunks: the array of chunk strings
    loadPc,         \* per loadPDF call: where the call is suspended
    loadResult,     \* per loadPDF call: the value the call resolved to
    loadAfterOk,    \* observer: the call began after a load had succeeded
    loadedOk,       \* observer: some loadPDF call has completed successfully
    \* the inputs and outputs of the functions checked on their own
    budget,         \* the chunk-size budget handed to the chunking loop
    query,          \* the query handed to retrieveRelevantContent
    retrieved,      \* what retrieveRelevantContent returned (or that it threw)
    phase,          \* "input" before the function under check ran, "output" after
    \* the session server's chat state
    sessionMemories,\* const sessionMemories = {}: session key -> BufferMemory
    req             \* per chat request: the handler's locals and its response

loaderVars == <<fileState, docText, pdfText, pdfChunks, loadPc, loadResult,
                loadAfterOk, loadedOk>>
pureVars == <<budget, query, retrieved, phase>>
chatVars == <<sessionMemories, req>>
vars == <<fileState, docText, pdfText, pdfChunks, loadPc, loadResult,
          loadAfterOk, loadedOk, budget, query, retrieved, phase,
          sessionMemories, req>>

(***************************************************************************)
(* Bounds of the model.                                                    *)
(***************************************************************************)
\* longest document text of the chunking check
MaxTextLen == 5
\* largest chunk-size budget of the chunking check
MaxBudget == 3
\* longest chunk sequence of the retrieval check
MaxChunks == 4
\* most whitespace-separated tokens in a query of the retrieval check
MaxQueryTokens == 2
\* most chat requests the webapi server receives in one run
MaxWebRequests == 2
\* most chat requests the session server receives in one run
MaxRequests == 2

(***************************************************************************)
(* Characters and strings.                                                 *)
(***************************************************************************)
\* the characters \s matches, among those the model uses
Whitespace == {" ", "\n"}

\* the characters of a document text in the chunking check
TextChars == {"a", "b", " ", "\n"}

\* every string over the alphabet cs of length at most n
RECURSIVE StringsUpTo(_, _)
StringsUpTo(cs, n) ==
    IF n = 0 THEN {<<>>}
    ELSE LET shorter == StringsUpTo(cs, n - 1)
         IN shorter \cup {Append(s, c) : s \in {t \in shorter : Len(t) = n - 1}, c \in cs}

\* String.prototype.split(/\s+/): the pieces between maximal whitespace runs,
\* an empty piece before a leading run and after a trailing one.
\* i is the next position, cur the piece being read, out the pieces so far.
RECURSIVE SplitFrom(_, _, _, _)
SplitFrom(s, i, cur, out) ==
    IF i > Len(s) THEN Append(out, cur)
    ELSE IF s[i] \in Whitespace
         THEN IF i > 1 /\ s[i - 1] \in Whitespace
              THEN SplitFrom(s, i + 1, cur, out)
              ELSE SplitFrom(s, i + 1, <<>>, Append(out, cur))
         ELSE SplitFrom(s, i + 1, Append(cur, s[i]), out)

SplitWhitespace(s) == SplitFrom(s, 1, <<>>, <<>>)

(***************************************************************************)
(* loadPDF: the chunking loop.                                             *)
(***************************************************************************)
CHUNK_SIZE == 2000

\* the mutant of ChunkLoop that leaves the separator out of the length test
RECURSIVE ChunkLoopIgnoresSeparator(_, _, _, _)
ChunkLoopIgnoresSeparator(words, currentChunk, chunks, size) ==
    IF words = <<>>
    THEN IF currentChunk # <<>> THEN Append(chunks, currentChunk) ELSE chunks
    ELSE LET word == Head(words)
             candidate == currentChunk
                          \o (IF currentChunk # <<>> THEN <<" ">> ELSE <<>>)
                          \o word
         IN IF Len(currentChunk \o word) <= size
            THEN ChunkLoopIgnoresSeparator(Tail(words), candidate, chunks, size)
            ELSE ChunkLoopIgnoresSeparator(Tail(words), word,
                                           IF currentChunk # <<>>
                                           THEN Append(chunks, currentChunk)
                                           ELSE chunks,
                                           size)

\* the mutant of ChunkLoop that drops the word that does not fit
RECURSIVE ChunkLoopDropsWord(_, _, _, _)
ChunkLoopDropsWord(words, currentChunk, chunks, size) ==
    IF words = <<>>
    THEN IF currentChunk # <<>> THEN Append(chunks, currentChunk) ELSE chunks
    ELSE LET word == Head(words)
             candidate == currentChunk
                          \o (IF currentChunk # <<>> THEN <<" ">> ELSE <<>>)
                          \o word
         IN IF Len(candidate) <= size
            THEN ChunkLoopDropsWord(Tail(words), candidate, chunks, size)
            ELSE ChunkLoopDropsWord(Tail(words), <<>>,
                                    IF currentChunk # <<>>
                                    THEN Append(chunks, currentChunk)
                                    ELSE chunks,
                                    size)

\* for (const word of words) { ... } and the flush of the last chunk:
\* chunks is pdfChunks as the loop found it, the result is pdfChunks after it.
RECURSIVE ChunkLoop(_, _, _, _)
ChunkLoop(words, currentChunk, chunks, size) ==
    IF words = <<>>
    THEN IF currentChunk # <<>> THEN Append(chunks, currentChunk) ELSE chunks
    ELSE LET word == Head(words)
             candidate == currentChunk
                          \o (IF currentChunk # <<>> THEN <<" ">> ELSE <<>>)
                          \o word
         IN IF Len(candidate) <= size
            THEN ChunkLoop(Tail(words), candidate, chunks, size)
            ELSE ChunkLoop(Tail(words), word,
                           IF currentChunk # <<>>
                           THEN Append(chunks, currentChunk)
                           ELSE chunks,
                           size)

\* the chunking part of loadPDF: split the text, run the loop on pdfChunks
ChunkText(text, chunks, size) ==
    ChunkLoop(SplitWhitespace(text), <<>>, chunks, size)

(***************************************************************************)
(* The chunking loop on its own: every text and budget within the bounds.  *)
(***************************************************************************)
NoCalls == [c \in {} |-> "idle"]

InitChunk ==
    /\ docText \in StringsUpTo(TextChars, MaxTextLen)
    /\ budget \in 0..MaxBudget
    /\ pdfText = <<>>
    /\ pdfChunks = <<>>
    /\ phase = "input"
    /\ fileState = "present"
    /\ loadPc = NoCalls /\ loadResult = NoCalls /\ loadAfterOk = NoCalls
    /\ loadedOk = FALSE
    /\ query = <<>> /\ retrieved = <<>>
    /\ sessionMemories = <<>> /\ req = <<>>

\* pdfText = data.text and the chunking that follows it, with the budget given
ChunkDocument ==
    /\ phase = "input"
    /\ pdfText' = <<docText>>
    /\ pdfChunks' = ChunkText(docText, pdfChunks, budget)
    /\ phase' = "output"
    /\ UNCHANGED <<fileState, docText, loadPc, loadResult, loadAfterOk, loadedOk,
                   budget, query, retrieved, sessionMemories, req>>

NextChunk == ChunkDocument

SpecChunk == InitChunk /\ [][NextChunk]_vars

(***************************************************************************)
(* retrieveRelevantContent.                                                *)
(***************************************************************************)
\* String.prototype.toLowerCase on the model's letters
LowerChar(c) == IF c = "A" THEN "a" ELSE IF c = "B" THEN "b" ELSE c

ToLowerCase(s) == [i \in 1..Len(s) |-> LowerChar(s[i])]

\* the character class [.,?!;:()"']
Punctuation == {".", ",", "?", "!", ";", ":", "(", ")", "\"", "'"}

IsNotPunctuation(c) == c \notin Punctuation

\* term.replace(/[.,?!;:()"']/g, "")
StripPunctuation(term) == SelectSeq(term, IsNotPunctuation)

IsLongTerm(term) == Len(term) > 2

\* the mutant of IsLongTerm that keeps tokens of two characters
IsLongTermOffByOne(term) == Len(term) > 1

\* the mutant of QueryTerms that filters with IsLongTermOffByOne
QueryTermsKeepsShort(q) ==
    LET kept == SelectSeq(SplitWhitespace(ToLowerCase(q)), IsLongTermOffByOne)
    IN [i \in 1..Len(kept) |-> StripPunctuation(kept[i])]

\* query.toLowerCase().split(/\s+/).filter(term => term.length > 2)
\*      .map(term => term.replace(/[.,?!;:()"']/g, ""))
QueryTerms(q) ==
    LET kept == SelectSeq(SplitWhitespace(ToLowerCase(q)), IsLongTerm)
    IN [i \in 1..Len(kept) |-> StripPunctuation(kept[i])]

\* whether term occurs in s at position i
OccursAt(term, s, i) ==
    /\ i + Len(term) - 1 <= Len(s)
    /\ \A k \in 1..Len(term) : s[i + k - 1] = term[k]

\* the mutant of CountFrom that resumes the scan one character behind the
\* start of a match
RECURSIVE CountFromOverlapping(_, _, _)
CountFromOverlapping(term, s, i) ==
    IF i > Len(s) THEN 0
    ELSE IF OccursAt(term, s, i) THEN 1 + CountFromOverlapping(term, s, i + 1)
    ELSE CountFromOverlapping(term, s, i + 1)

\* the matches of a global regular expression made of the literal term, scanning
\* s from position i: after a match the scan resumes behind it
RECURSIVE CountFrom(_, _, _)
CountFrom(term, s, i) ==
    IF i > Len(s) THEN 0
    ELSE IF OccursAt(term, s, i) THEN 1 + CountFrom(term, s, i + Len(term))
    ELSE CountFrom(term, s, i + 1)

\* chunkLower.match(new RegExp(term, 'gi')): the number of matches (0 for null).
\* The terms of the model hold letters only, so the pattern is the literal term;
\* the empty pattern matches the empty string at every position of s, its end
\* included.
MatchCount(term, s) ==
    IF term = <<>> THEN Len(s) + 1 ELSE CountFrom(ToLowerCase(term), s, 1)

\* let score = 0; for (const term of queryTerms) { ... score += matches.length }
RECURSIVE ChunkScore(_, _)
ChunkScore(chunk, terms) ==
    IF terms = <<>> THEN 0
    ELSE MatchCount(Head(terms), ToLowerCase(chunk)) + ChunkScore(chunk, Tail(terms))

\* pdfChunks.map(chunk => ({ chunk, score }))
ScoredChunks(chunks, terms) ==
    [i \in 1..Len(chunks) |-> [chunk |-> chunks[i], score |-> ChunkScore(chunks[i], terms)]]

HasScore(item) == item.score > 0

\* the mutant of InsertByScore that puts an item before the items of equal score
RECURSIVE InsertByScoreUnstable(_, _)
InsertByScoreUnstable(sorted, item) ==
    IF sorted = <<>> THEN <<item>>
    ELSE IF Head(sorted).score > item.score
         THEN <<Head(sorted)>> \o InsertByScoreUnstable(Tail(sorted), item)
         ELSE <<item>> \o sorted

\* one step of the stable sort with (a, b) => b.score - a.score: item goes
\* behind every item that does not sort after it
RECURSIVE InsertByScore(_, _)
InsertByScore(sorted, item) ==
    IF sorted = <<>> THEN <<item>>
    ELSE IF Head(sorted).score >= item.score
         THEN <<Head(sorted)>> \o InsertByScore(Tail(sorted), item)
         ELSE <<item>> \o sorted

\* Array.prototype.sort((a, b) => b.score - a.score), stable since ES2019
RECURSIVE SortByScore(_)
SortByScore(items) ==
    IF items = <<>> THEN <<>>
    ELSE InsertByScore(SortByScore(SubSeq(items, 1, Len(items) - 1)),
                       items[Len(items)])

\* .slice(0, 3)
TopThree(items) == SubSeq(items, 1, IF Len(items) < 3 THEN Len(items) ELSE 3)

\* the value of a call that returned v, and of a call that threw
Returned(v) == [threw |-> FALSE, value |-> v]
Threw == [threw |-> TRUE, value |-> <<>>]

\* the mutant of RetrieveRelevantContent that tokenizes the query before it
\* tests the chunk array
RetrieveTokenizesFirst(chunks, q) ==
    IF q = <<>> THEN Threw
    ELSE IF chunks = <<>> THEN Returned(<<>>)
    ELSE LET queryTerms == QueryTerms(q[1])
         IN IF queryTerms = <<>> THEN Returned(<<>>)
            ELSE LET top == TopThree(SortByScore(
                                SelectSeq(ScoredChunks(chunks, queryTerms), HasScore)))
                 IN Returned([i \in 1..Len(top) |-> top[i].chunk])

\* retrieveRelevantContent(query) over the chunk array chunks.  q is <<>> for
\* undefined (query.toLowerCase() throws a TypeError) and <<s>> for the string s.
RetrieveRelevantContent(chunks, q) ==
    IF chunks = <<>> THEN Returned(<<>>)
    ELSE IF q = <<>> THEN Threw
    ELSE LET queryTerms == QueryTerms(q[1])
         IN IF queryTerms = <<>> THEN Returned(<<>>)
            ELSE LET top == TopThree(SortByScore(
                                SelectSeq(ScoredChunks(chunks, queryTerms), HasScore)))
                 IN Returned([i \in 1..Len(top) |-> top[i].chunk])

(***************************************************************************)
(* retrieveRelevantContent on its own: every chunk array and query within  *)
(* the bounds.                                                             *)
(***************************************************************************)
\* the chunk strings of the retrieval check
ChunkTexts == {<<"b">>, <<"A", "a", "b">>, <<"b", "A", "B">>}

\* the whitespace-separated tokens of the queries of the retrieval check: one
\* of length <= 2, one of punctuation only, three that leave a term
QueryTokens ==
    {<<"a", "?">>, <<"?", "?", "?">>,
     <<"a", "?", "?">>, <<"b", "?", "?">>, <<"A", "a", "B">>}

\* every sequence over the set xs of length at most n
RECURSIVE SeqsUpTo(_, _)
SeqsUpTo(xs, n) ==
    IF n = 0 THEN {<<>>}
    ELSE LET shorter == SeqsUpTo(xs, n - 1)
         IN shorter \cup {Append(s, x) : s \in {t \in shorter : Len(t) = n - 1}, x \in xs}

\* the tokens of ts with one space between them
RECURSIVE SpaceJoined(_)
SpaceJoined(ts) ==
    IF ts = <<>> THEN <<>>
    ELSE IF Len(ts) = 1 THEN ts[1]
    ELSE ts[1] \o <<" ">> \o SpaceJoined(Tail(ts))

\* the queries of the retrieval check: undefined, and up to MaxQueryTokens tokens
Queries == {<<>>} \cup {<<SpaceJoined(ts)>> : ts \in SeqsUpTo(QueryTokens, MaxQueryTokens)}

InitRetrieve ==
    /\ pdfChunks \in SeqsUpTo(ChunkTexts, MaxChunks)
    /\ query \in Queries
    /\ retrieved = <<>>
    /\ phase = "input"
    /\ docText = <<>> /\ pdfText = <<>> /\ budget = CHUNK_SIZE
    /\ fileState = "present"
    /\ loadPc = NoCalls /\ loadResult = NoCalls /\ loadAfterOk = NoCalls
    /\ loadedOk = FALSE
    /\ sessionMemories = <<>> /\ req = <<>>

\* one call of retrieveRelevantContent(query)
Retrieve ==
    /\ phase = "input"
    /\ retrieved' = RetrieveRelevantContent(pdfChunks, query)
    /\ phase' = "output"
    /\ UNCHANGED <<loaderVars, budget, query, chatVars>>

NextRetrieve == Retrieve

SpecRetrieve == InitRetrieve /\ [][NextRetrieve]_vars

(***************************************************************************)
(* The scoring of retrieveRelevantContent on its own: one chunk, every     *)
(* query within the bounds, the query terms and the scored chunks kept.    *)
(***************************************************************************)
\* the longest chunk of the scoring check
MaxChunkLen == 4

\* the characters of the chunks of the scoring check
ScoreChars == {"a", "A", "b"}

\* the tokens of the queries of the scoring check: they leave the terms "a",
\* "aa", "ab" and "aab", or none
ScoreTokens ==
    {<<"a", "?">>, <<"a", "?", "?">>, <<"A", "a", "?">>, <<"a", "B", "!">>,
     <<"a", "A", "b">>}

ScoreQueries == {<<SpaceJoined(ts)>> : ts \in SeqsUpTo(ScoreTokens, MaxQueryTokens)}

InitScore ==
    /\ pdfChunks \in {<<c>> : c \in StringsUpTo(ScoreChars, MaxChunkLen) \ {<<>>}}
    /\ query \in ScoreQueries
    /\ retrieved = <<>>
    /\ phase = "input"
    /\ docText = <<>> /\ pdfText = <<>> /\ budget = CHUNK_SIZE
    /\ fileState = "present"
    /\ loadPc = NoCalls /\ loadResult = NoCalls /\ loadAfterOk = NoCalls
    /\ loadedOk = FALSE
    /\ sessionMemories = <<>> /\ req = <<>>

\* retrieveRelevantContent(query) from the tokenization to the scored chunks:
\* const queryTerms = ..., const scoredChunks = pdfChunks.map(...)
ScoreChunks ==
    /\ phase = "input"
    /\ LET queryTerms == QueryTerms(query[1])
       IN retrieved' = [queryTerms |-> queryTerms,
                        scoredChunks |-> ScoredChunks(pdfChunks, queryTerms)]
    /\ phase' = "scored"
    /\ UNCHANGED <<loaderVars, budget, query, chatVars>>

NextScore == ScoreChunks

SpecScore == InitScore /\ [][NextScore]_vars

(***************************************************************************)
(* loadPDF as a whole, one action per stretch between awaits.  A call is   *)
(* named by its caller: StartupCall for the call in the app.listen         *)
(* callback, the request's number for a call made by the webapi /chat      *)
(* handler.                                                                *)
(***************************************************************************)
\* the loadPDF call of the app.listen callback
StartupCall == 0

\* the document texts of the server runs: the empty text, a text of one word,
\* a text of two words and a text whose first word is "Error"
DocTexts == {<<>>, <<"b">>, <<"A", "a", "b", "\n", "b">>, <<"Error", " ", "b">>}

FileStates == {"present", "absent", "corrupt"}

\* the strings loadPDF returns when it fails
PdfNotFound == <<"PDF not found", ".">>
ErrorProcessing == <<"Error", " processing PDF.">>

\* if (pdfText): null and the empty string are falsy
Truthy(text) == text # <<>> /\ text[1] # <<>>


\* loadPDF() up to its first await: the cached text, or fs.access is pending
LoadCall(c) ==
    /\ loadPc[c] = "idle"
    /\ IF Truthy(pdfText)
       THEN /\ loadPc' = [loadPc EXCEPT ![c] = "done"]
            /\ loadResult' = [loadResult EXCEPT ![c] = pdfText[1]]
       ELSE /\ loadPc' = [loadPc EXCEPT ![c] = "access"]
            /\ UNCHANGED loadResult
    /\ loadAfterOk' = [loadAfterOk EXCEPT ![c] = loadedOk]
    /\ UNCHANGED <<fileState, docText, pdfText, pdfChunks, loadedOk>>

\* await fs.access(pdfPath) resolved: fs.readFile, then pdfParse, are awaited.
\* Nothing the program holds changes between the two, so they are one wait.
LoadAccessOk(c) ==
    /\ loadPc[c] = "access"
    /\ fileState # "absent"
    /\ loadPc' = [loadPc EXCEPT ![c] = "parse"]
    /\ UNCHANGED <<fileState, docText, pdfText, pdfChunks, loadResult,
                   loadAfterOk, loadedOk>>

\* await fs.access(pdfPath) rejected: return "PDF not found."
LoadAccessFail(c) ==
    /\ loadPc[c] = "access"
    /\ fileState = "absent"
    /\ loadPc' = [loadPc EXCEPT ![c] = "done"]
    /\ loadResult' = [loadResult EXCEPT ![c] = PdfNotFound]
    /\ UNCHANGED <<fileState, docText, pdfText, pdfChunks, loadAfterOk, loadedOk>>

\* fs.readFile and pdfParse resolved: pdfText = data.text, the chunking loop
\* pushes onto pdfChunks, return pdfText
LoadParseOk(c) ==
    /\ loadPc[c] = "parse"
    /\ fileState = "present"
    /\ pdfText' = <<docText>>
    /\ pdfChunks' = ChunkText(docText, pdfChunks, CHUNK_SIZE)
    /\ loadPc' = [loadPc EXCEPT ![c] = "done"]
    /\ loadResult' = [loadResult EXCEPT ![c] = docText]
    /\ loadedOk' = TRUE
    /\ UNCHANGED <<fileState, docText, loadAfterOk>>

\* fs.readFile or pdfParse rejected: return "Error processing PDF."
LoadParseFail(c) ==
    /\ loadPc[c] = "parse"
    /\ fileState = "corrupt"
    /\ loadPc' = [loadPc EXCEPT ![c] = "done"]
    /\ loadResult' = [loadResult EXCEPT ![c] = ErrorProcessing]
    /\ UNCHANGED <<fileState, docText, pdfText, pdfChunks, loadAfterOk, loadedOk>>

\* a loadPDF call moves on when the promise it awaits settles
LoadStep(c) ==
    \/ LoadAccessOk(c)
    \/ LoadAccessFail(c)
    \/ LoadParseOk(c)
    \/ LoadParseFail(c)

(***************************************************************************)
(* The webapi server: app.listen and the /chat handler.                    *)
(***************************************************************************)
WebReqs == 1..MaxWebRequests
WebCallers == {StartupCall} \cup WebReqs

\* the message strings of the chat requests: their term "b" scores on every
\* document text that holds a word
Messages == {<<"b", "?", "?">>}

\* req.body.message: <<>> when the body has no message, <<m>> for the string m
BodyMessages == {<<>>} \cup {<<m>> : m \in Messages}

\* a request the server has not received yet
NoRequest == [pc |-> "none"]

\* whether a string starts with the given first piece
StartsWith(str, piece) == str # <<>> /\ str[1] = piece

\* the system prompts of the webapi handler
WebSystemMessage(kind, sources) ==
    [role |-> "system", kind |-> kind, excerpts |-> sources]

UserMessage(message) == [role |-> "user", content |-> message]

InitWebapi ==
    /\ fileState \in FileStates
    /\ docText \in DocTexts
    /\ pdfText = <<>>
    /\ pdfChunks = <<>>
    /\ loadPc = [c \in WebCallers |-> "idle"]
    /\ loadResult = [c \in WebCallers |-> <<>>]
    /\ loadAfterOk = [c \in WebCallers |-> FALSE]
    /\ loadedOk = FALSE
    /\ budget = CHUNK_SIZE /\ query = <<>> /\ retrieved = <<>> /\ phase = "server"
    /\ sessionMemories = <<>>
    /\ req = [r \in WebReqs |-> NoRequest]

\* app.listen(PORT, () => { loadPDF()... })
WebListen ==
    /\ LoadCall(StartupCall)
    /\ UNCHANGED <<pureVars, chatVars>>

\* a step of some loadPDF call
WebLoadStep ==
    /\ \E c \in WebCallers : LoadStep(c)
    /\ UNCHANGED <<pureVars, chatVars>>

\* client.path("/chat/completions").post({ body: { messages, ... } })
WebCallModel(r, message, useRAG, sources, messages) ==
    req' = [req EXCEPT ![r] = [pc |-> "invoke", message |-> message,
                               useRAG |-> useRAG, sources |-> sources,
                               messages |-> messages]]

\* app.post("/chat"), up to its first await: with RAG, loadPDF() is called and
\* awaited; without, the messages are built and the model is called
WebChatReceive(r, message, useRAG) ==
    /\ loadPc[StartupCall] # "idle"
    /\ req[r].pc = "none"
    /\ \A q \in WebReqs : q < r => req[q].pc # "none"
    /\ IF useRAG
       THEN /\ LoadCall(r)
            /\ req' = [req EXCEPT ![r] = [pc |-> "load", message |-> message,
                                          useRAG |-> useRAG, sources |-> <<>>,
                                          messages |-> <<>>]]
       ELSE /\ WebCallModel(r, message, useRAG, <<>>,
                            <<WebSystemMessage("general", <<>>), UserMessage(message)>>)
            /\ UNCHANGED loaderVars
    /\ UNCHANGED <<pureVars, sessionMemories>>

\* await loadPDF() resolved: classify the result, retrieve, build the messages,
\* call the model.  retrieveRelevantContent throwing rejects the handler's
\* promise: no response is sent.
WebChatLoaded(r) ==
    /\ req[r].pc = "load"
    /\ loadPc[r] = "done"
    /\ LET pdfLoadResult == loadResult[r]
           userMessage == req[r].message
       IN IF StartsWith(pdfLoadResult, "Error") \/ StartsWith(pdfLoadResult, "PDF not found")
          THEN WebCallModel(r, userMessage, TRUE, <<>>,
                            <<WebSystemMessage("noAccess", <<>>), UserMessage(userMessage)>>)
          ELSE LET got == RetrieveRelevantContent(pdfChunks, userMessage)
               IN IF got.threw
                  THEN req' = [req EXCEPT ![r] = [@ EXCEPT !.pc = "crashed"]]
                  ELSE IF Len(got.value) > 0
                  THEN WebCallModel(r, userMessage, TRUE, got.value,
                                    <<WebSystemMessage("excerpts", got.value),
                                      UserMessage(userMessage)>>)
                  ELSE WebCallModel(r, userMessage, TRUE, got.value,
                                    <<WebSystemMessage("noneRelevant", <<>>),
                                      UserMessage(userMessage)>>)
    /\ UNCHANGED <<loaderVars, pureVars, sessionMemories>>

\* the replies of the model
Replies == {"reply"}

\* the completion call returned choices: res.json({ reply, sources })
WebChatReplied(r, reply) ==
    /\ req[r].pc = "invoke"
    /\ req' = [req EXCEPT ![r] =
                  [pc |-> "done", message |-> @.message, useRAG |-> @.useRAG,
                   sources |-> @.sources, messages |-> @.messages,
                   response |-> [status |-> 200, reply |-> <<reply>>,
                                 sources |-> IF @.useRAG THEN @.sources ELSE <<>>]]]
    /\ UNCHANGED <<loaderVars, pureVars, sessionMemories>>

\* the completion call failed, answered an error or no choices:
\* res.status(500).json({ error, message })
WebChatFailed(r) ==
    /\ req[r].pc = "invoke"
    /\ req' = [req EXCEPT ![r] =
                  [pc |-> "done", message |-> @.message, useRAG |-> @.useRAG,
                   sources |-> @.sources, messages |-> @.messages,
                   response |-> [status |-> 500, error |-> "Model call failed"]]]
    /\ UNCHANGED <<loaderVars, pureVars, sessionMemories>>

NextWebapi ==
    \/ WebListen
    \/ WebLoadStep
    \/ \E r \in WebReqs, m \in BodyMessages, u \in BOOLEAN : WebChatReceive(r, m, u)
    \/ \E r \in WebReqs : WebChatLoaded(r)
    \/ \E r \in WebReqs, reply \in Replies : WebChatReplied(r, reply)
    \/ \E r \in WebReqs : WebChatFailed(r)

SpecWebapi == InitWebapi /\ [][NextWebapi]_vars

(***************************************************************************)
(* The session server (src/unnamed/part_000): per-session memory, the web  *)
(* search and the /chat handler.  loadPDF is called by app.listen only.    *)
(***************************************************************************)
Reqs == 1..MaxRequests

\* req.body.sessionId: <<>> when the body has none, <<id>> for the string id
BodySessionIds == {<<>>, <<"alice">>}

\* the mutant of SessionIdOf that keys every request's memory alike
SessionIdIgnored(bodySessionId) == "default"

\* req.body.sessionId || "default"
SessionIdOf(bodySessionId) ==
    IF bodySessionId = <<>> \/ bodySessionId[1] = "" THEN "default" ELSE bodySessionId[1]

\* the keys sessionMemories can hold
SessionKeys == {SessionIdOf(b) : b \in BodySessionIds}

\* a key of sessionMemories that holds no memory yet
NoMemory == [created |-> FALSE, messages |-> <<>>]

\* the turns of the chat history; by is an observer: the request whose
\* saveContext added the turn
HumanMessage(content, r) == [role |-> "user", content |-> content, by |-> r]
AIMessage(content, r) == [role |-> "assistant", content |-> content, by |-> r]

\* getSessionMemory(sessionId): the memory is created on first use
GetSessionMemory(memories, sessionId) ==
    IF memories[sessionId].created THEN memories
    ELSE [memories EXCEPT ![sessionId] = [created |-> TRUE, messages |-> <<>>]]

\* the mutant of SaveContext that stores the exchange in place of the history
SaveContextOverwrites(memories, sessionId, input, output, r) ==
    [memories EXCEPT ![sessionId].messages =
        <<HumanMessage(input, r), AIMessage(output, r)>>]

\* the mutant of SaveContext that pushes the AI message before the human one
SaveContextOutputFirst(memories, sessionId, input, output, r) ==
    [memories EXCEPT ![sessionId].messages =
        @ \o <<AIMessage(output, r), HumanMessage(input, r)>>]

\* the mutant of SaveContext that records the human message only
SaveContextInputOnly(memories, sessionId, input, output, r) ==
    [memories EXCEPT ![sessionId].messages = @ \o <<HumanMessage(input, r)>>]

\* memory.saveContext({ input }, { output }): the chat history gains the human
\* message, then the AI message
SaveContext(memories, sessionId, input, output, r) ==
    [memories EXCEPT ![sessionId].messages =
        @ \o <<HumanMessage(input, r), AIMessage(output, r)>>]

\* the answer snippets of the web search
Snippets == {"snippet"}

\* sources.push(`(From Tavily Search)\n${tavilySnippet}`)
TavilySource(snippet) == <<"(From Tavily Search)\n", snippet>>

\* the texts of the three system messages
ExcerptsInstruction ==
    "You are a helpful assistant for Contoso Electronics. You must ONLY use the information provided below to answer. If the information is not sufficient, state that you cannot answer based on the provided data.\n\n--- EMPLOYEE HANDBOOK EXCERPTS ---\n"
EndOfExcerpts == "\n--- END OF EXCERPTS ---"
DontKnowInstruction ==
    "You are a helpful assistant for Contoso Electronics. The provided excerpts do not contain relevant information for this question. Reply politely: I'm sorry, I don't know. The employee handbook and available search results do not contain information about that."
GeneralInstruction ==
    "You are a helpful and knowledgeable assistant. Answer the user's questions concisely and informatively."

\* sources.join('\n\n')
RECURSIVE JoinSources(_)
JoinSources(sources) ==
    IF sources = <<>> THEN <<>>
    ELSE IF Len(sources) = 1 THEN sources[1]
    ELSE sources[1] \o <<"\n\n">> \o JoinSources(Tail(sources))

\* the mutant of SystemMessage that gives the excerpt instruction whenever
\* RAG is used
SystemMessageAlwaysExcerpts(useRAG, sources) ==
    IF useRAG
    THEN [role |-> "system",
          content |-> <<ExcerptsInstruction>> \o JoinSources(sources)
                          \o <<EndOfExcerpts>>]
    ELSE [role |-> "system", content |-> <<GeneralInstruction>>]

\* const systemMessage = useRAG ? (sources.length > 0 ? excerpts : don't know)
\*                              : general
SystemMessage(useRAG, sources) ==
    IF useRAG
    THEN IF Len(sources) > 0
         THEN [role |-> "system",
               content |-> <<ExcerptsInstruction>> \o JoinSources(sources)
                               \o <<EndOfExcerpts>>]
         ELSE [role |-> "system", content |-> <<DontKnowInstruction>>]
    ELSE [role |-> "system", content |-> <<GeneralInstruction>>]

\* the mutant of BuildMessages that leaves the chat history out
BuildMessagesWithoutHistory(systemMessage, chatHistory, userMessage) ==
    <<systemMessage, UserMessage(userMessage)>>

\* const messages = [systemMessage, ...(memoryVars.chat_history || []),
\*                   { role: "user", content: userMessage }]
\* chat_history is the history's own array (getMessages returns this.messages),
\* read when the spread runs.
BuildMessages(systemMessage, chatHistory, userMessage) ==
    <<systemMessage>> \o chatHistory \o <<UserMessage(userMessage)>>

\* the reply of the failure response
FallbackReply == <<"Sorry, I encountered an error. Please try again.">>

\* the mutant of FailureResponse that reports what was retrieved
FailureResponseKeepsSources(sources) ==
    [status |-> 500, error |-> "Model call failed", reply |-> FallbackReply,
     sources |-> sources]

\* res.status(500).json({ error, message, reply, sources: [] })
FailureResponse(sources) ==
    [status |-> 500, error |-> "Model call failed", reply |-> FallbackReply,
     sources |-> <<>>]

\* res.json({ reply: response.content, sources })
SuccessResponse(reply, sources) ==
    [status |-> 200, reply |-> <<reply>>, sources |-> sources]

\* the document text of the session server's runs
SessionDocTexts == {<<"A", "a", "b", "\n", "b">>}

Init ==
    /\ fileState \in FileStates
    /\ docText \in SessionDocTexts
    /\ pdfText = <<>>
    /\ pdfChunks = <<>>
    /\ loadPc = [c \in {StartupCall} |-> "idle"]
    /\ loadResult = [c \in {StartupCall} |-> <<>>]
    /\ loadAfterOk = [c \in {StartupCall} |-> FALSE]
    /\ loadedOk = FALSE
    /\ budget = CHUNK_SIZE /\ query = <<>> /\ retrieved = <<>> /\ phase = "server"
    /\ sessionMemories = [k \in SessionKeys |-> NoMemory]
    /\ req = [r \in Reqs |-> NoRequest]

\* app.listen(PORT, () => { loadPDF()... })
Listen ==
    /\ LoadCall(StartupCall)
    /\ UNCHANGED <<pureVars, chatVars>>

\* a step of the startup loadPDF call
StartupLoadStep ==
    /\ LoadStep(StartupCall)
    /\ UNCHANGED <<pureVars, chatVars>>

\* the handler's locals at its first wait on the network.  chunks is an
\* observer: what retrieveRelevantContent returned
Handling(r, message, useRAG, bodySessionId, pc, sources, messages) ==
    req' = [req EXCEPT ![r] =
               [pc |-> pc, message |-> message, useRAG |-> useRAG,
                sessionId |-> SessionIdOf(bodySessionId), issuedAs |-> bodySessionId,
                chunks |-> sources, tavilySnippet |-> <<>>,
                sources |-> sources, messages |-> messages]]

\* app.post("/chat") up to its first wait on the network.  The body is read,
\* the session's memory is fetched or created and its variables are loaded:
\* await memory.loadMemoryVariables({}) settles without I/O, so the handler
\* resumes before any other callback runs.  With RAG, retrieveRelevantContent
\* runs and queryTavily is awaited; a throw of retrieveRelevantContent rejects
\* the handler's promise and no response is sent.  Without RAG, the messages
\* are built and chatModel.invoke is awaited.
ChatReceive(r, message, useRAG, bodySessionId) ==
    /\ loadPc[StartupCall] # "idle"
    /\ req[r].pc = "none"
    /\ \A q \in Reqs : q < r => req[q].pc # "none"
    /\ LET sessionId == SessionIdOf(bodySessionId)
           memories == GetSessionMemory(sessionMemories, sessionId)
       IN /\ sessionMemories' = memories
          /\ IF useRAG
             THEN LET got == RetrieveRelevantContent(pdfChunks, message)
                  IN IF got.threw
                     THEN Handling(r, message, useRAG, bodySessionId, "crashed",
                                   <<>>, <<>>)
                     ELSE Handling(r, message, useRAG, bodySessionId, "tavily",
                                   got.value, <<>>)
             ELSE Handling(r, message, useRAG, bodySessionId, "invoke", <<>>,
                           BuildMessages(SystemMessage(FALSE, <<>>),
                                         memories[sessionId].messages, message))
    /\ UNCHANGED <<loaderVars, pureVars>>

\* the handler's locals once the model is called at chatModel.invoke(messages)
Invoking(r, tavilySnippet, sources, messages) ==
    req' = [req EXCEPT ![r] = [@ EXCEPT !.pc = "invoke",
                                        !.tavilySnippet = tavilySnippet,
                                        !.sources = sources,
                                        !.messages = messages]]

\* the steps from the return of queryTavily to chatModel.invoke(messages):
\* if (tavilySnippet) sources.push(...), the system message, the messages
AfterTavily(r, tavilySnippet) ==
    LET sources == IF tavilySnippet # <<>>
                   THEN Append(req[r].sources, TavilySource(tavilySnippet[1]))
                   ELSE req[r].sources
    IN Invoking(r, tavilySnippet, sources,
                BuildMessages(SystemMessage(TRUE, sources),
                              sessionMemories[req[r].sessionId].messages,
                              req[r].message))

\* the mutant of ChatTavilyAnswered in which sources is the chunk array itself,
\* so that the push of the snippet lands in pdfChunks
ChatTavilySharesChunks(r, answer) ==
    /\ req[r].pc = "tavily"
    /\ AfterTavily(r, answer)
    /\ pdfChunks' = IF answer # <<>>
                    THEN Append(pdfChunks, TavilySource(answer[1]))
                    ELSE pdfChunks
    /\ UNCHANGED <<fileState, docText, pdfText, loadPc, loadResult, loadAfterOk,
                   loadedOk, pureVars, sessionMemories>>

\* queryTavily returned res.data.answer || null: a snippet is pushed onto the
\* request's sources, null is not
ChatTavilyAnswered(r, answer) ==
    /\ req[r].pc = "tavily"
    /\ AfterTavily(r, answer)
    /\ UNCHANGED <<loaderVars, pureVars, sessionMemories>>

\* the mutant of ChatTavilyFailed that lets the rejection reach the handler's
\* catch block
ChatTavilyFailurePropagates(r) ==
    /\ req[r].pc = "tavily"
    /\ req' = [req EXCEPT ![r] =
                  [pc |-> "done", message |-> @.message, useRAG |-> @.useRAG,
                   sessionId |-> @.sessionId, issuedAs |-> @.issuedAs,
                   chunks |-> @.chunks, tavilySnippet |-> <<>>,
                   sources |-> @.sources, messages |-> <<>>,
                   response |-> FailureResponse(@.sources)]]
    /\ UNCHANGED <<loaderVars, pureVars, sessionMemories>>

\* axios.post rejected: queryTavily logs the error and returns null
ChatTavilyFailed(r) ==
    /\ req[r].pc = "tavily"
    /\ AfterTavily(r, <<>>)
    /\ UNCHANGED <<loaderVars, pureVars, sessionMemories>>

\* chatModel.invoke resolved: saveContext records the exchange, the reply and
\* the sources are sent.  A request without a message gets no reply: the
\* model call does not accept a user message without content.
ChatModelReplied(r, reply) ==
    /\ req[r].pc = "invoke"
    /\ req[r].message # <<>>
    /\ sessionMemories' = SaveContext(sessionMemories, req[r].sessionId,
                                      req[r].message, <<reply>>, r)
    /\ req' = [req EXCEPT ![r] =
                  [pc |-> "done", message |-> @.message, useRAG |-> @.useRAG,
                   sessionId |-> @.sessionId, issuedAs |-> @.issuedAs,
                   chunks |-> @.chunks, tavilySnippet |-> @.tavilySnippet,
                   sources |-> @.sources, messages |-> @.messages,
                   response |-> SuccessResponse(reply, @.sources)]]
    /\ UNCHANGED <<loaderVars, pureVars>>

\* chatModel.invoke rejected: the catch block sends the failure response
ChatModelFailed(r) ==
    /\ req[r].pc = "invoke"
    /\ req' = [req EXCEPT ![r] =
                  [pc |-> "done", message |-> @.message, useRAG |-> @.useRAG,
                   sessionId |-> @.sessionId, issuedAs |-> @.issuedAs,
                   chunks |-> @.chunks, tavilySnippet |-> @.tavilySnippet,
                   sources |-> @.sources, messages |-> @.messages,
                   response |-> FailureResponse(@.sources)]]
    /\ UNCHANGED <<loaderVars, pureVars, sessionMemories>>

\* what queryTavily can return: null or a snippet
TavilyAnswers == {<<>>} \cup {<<a>> : a \in Snippets}

Next ==
    \/ Listen
    \/ StartupLoadStep
    \/ \E r \in Reqs, m \in BodyMessages, u \in BOOLEAN, b \in BodySessionIds :
          ChatReceive(r, m, u, b)
    \/ \E r \in Reqs, a \in TavilyAnswers : ChatTavilyAnswered(r, a)
    \/ \E r \in Reqs : ChatTavilyFailed(r)
    \/ \E r \in Reqs, reply \in Replies : ChatModelReplied(r, reply)
    \/ \E r \in Reqs : ChatModelFailed(r)

Spec == Init /\ [][Next]_vars

(***************************************************************************)
(* What the claims about chunking speak of.                                *)
(***************************************************************************)
\* the words of a string: its maximal runs of non-whitespace characters
RECURSIVE WordsOf(_)
WordsOf(s) ==
    IF s = <<>> THEN <<>>
    ELSE IF Head(s) \in Whitespace THEN WordsOf(Tail(s))
    ELSE LET n == CHOOSE k \in 1..Len(s) :
                      /\ \A j \in 1..k : s[j] \notin Whitespace
                      /\ (k = Len(s) \/ s[k + 1] \in Whitespace)
         IN <<SubSeq(s, 1, n)>> \o WordsOf(SubSeq(s, n + 1, Len(s)))

\* strings joined with one space between them
RECURSIVE JoinWithSpace(_)
JoinWithSpace(ss) ==
    IF ss = <<>> THEN <<>>
    ELSE IF Len(ss) = 1 THEN ss[1]
    ELSE ss[1] \o <<" ">> \o JoinWithSpace(Tail(ss))

\* whitespace normalisation: runs of whitespace become one space, none at the ends
NormalizeWhitespace(s) == JoinWithSpace(WordsOf(s))

\* the words of each string of ss, in order
RECURSIVE WordsOfAll(_)
WordsOfAll(ss) ==
    IF ss = <<>> THEN <<>> ELSE WordsOf(Head(ss)) \o WordsOfAll(Tail(ss))

\* C3: the chunks, joined with single spaces and whitespace-normalised, are the
\* whitespace-normalised text, and the words read chunk by chunk are the words
\* of the text: no chunk boundary falls inside a word.
C3_ChunkReconstruction ==
    phase = "output" =>
        /\ NormalizeWhitespace(JoinWithSpace(pdfChunks)) = NormalizeWhitespace(docText)
        /\ WordsOfAll(pdfChunks) = WordsOf(docText)

\* a text with leading whitespace and a run of whitespace between two words,
\* cut into several chunks
C3_Witness ==
    /\ phase = "output"
    /\ Len(docText) >= 2 /\ docText[1] \in Whitespace
    /\ \E i \in 2..(Len(docText) - 2) :
           /\ docText[i - 1] \notin Whitespace
           /\ docText[i] \in Whitespace /\ docText[i + 1] \in Whitespace
    /\ Len(pdfChunks) >= 2

\* C4: no chunk is empty, and a chunk longer than the budget is exactly one
\* word (it holds no whitespace) longer than the budget.
C4_ChunkSizeBound ==
    phase = "output" =>
        \A i \in 1..Len(pdfChunks) :
            /\ pdfChunks[i] # <<>>
            /\ \/ Len(pdfChunks[i]) <= budget
               \/ WordsOf(pdfChunks[i]) = <<pdfChunks[i]>>

\* a chunking with an oversized single-word chunk and a chunk that fills the
\* budget exactly
C4_Witness ==
    /\ phase = "output"
    /\ \E i \in 1..Len(pdfChunks) : Len(pdfChunks[i]) > budget
    /\ \E i \in 1..Len(pdfChunks) : Len(pdfChunks[i]) = budget

(***************************************************************************)
(* What the claims about retrieval speak of.                               *)
(***************************************************************************)
\* the score retrieveRelevantContent gives each chunk for the query in hand
Scores ==
    LET terms == QueryTerms(query[1])
    IN [i \in 1..Len(pdfChunks) |-> ChunkScore(pdfChunks[i], terms)]

\* the chunks with a positive score under the scores sc
PositiveOf(sc) == {i \in DOMAIN sc : sc[i] > 0}

\* the number of positive chunks that come before chunk i: a higher score, or
\* the same score and an earlier place in the document
RankOf(sc, i) ==
    Cardinality({j \in PositiveOf(sc) :
                    \/ sc[j] > sc[i]
                    \/ sc[j] = sc[i] /\ j < i})

\* the first min(3, k) of the k positive chunks in that order
ExpectedTop ==
    LET sc == Scores
        k == Cardinality(PositiveOf(sc))
    IN [n \in 1..(IF k < 3 THEN k ELSE 3) |->
           pdfChunks[CHOOSE i \in PositiveOf(sc) : RankOf(sc, i) = n - 1]]

\* C5: retrieve returns the texts of the first min(3, k) of the k chunks with a
\* positive score, by score descending and ties in document order; no chunk of
\* score 0 and never more than 3 entries.
C5_RetrieveResult ==
    (phase = "output" /\ query # <<>> /\ ~retrieved.threw) =>
        /\ retrieved.value = ExpectedTop
        /\ Len(retrieved.value) <= 3

\* every term of the query holds a letter, more than three chunks score, two of
\* different text tie, and a later chunk scores higher than an earlier one
C5_Witness ==
    /\ phase = "output" /\ query # <<>> /\ ~retrieved.threw
    /\ \A t \in 1..Len(QueryTerms(query[1])) : QueryTerms(query[1])[t] # <<>>
    /\ LET sc == Scores
       IN /\ Cardinality(PositiveOf(sc)) > 3
          /\ \E i, j \in PositiveOf(sc) :
                 i < j /\ sc[i] = sc[j] /\ pdfChunks[i] # pdfChunks[j]
          /\ \E i, j \in PositiveOf(sc) : i < j /\ sc[i] < sc[j]

\* C6: over a non-empty chunk array, a query whose whitespace-separated tokens
\* all have length <= 2 (the empty query too) returns an empty sequence and
\* raises no error.
C6_EmptyQuerySafety ==
    (/\ phase = "output" /\ query # <<>> /\ pdfChunks # <<>>
     /\ \A w \in 1..Len(WordsOf(query[1])) : Len(WordsOf(query[1])[w]) <= 2) =>
        retrieved = Returned(<<>>)

\* a query of two short tokens whose letter occurs in a chunk
C6_Witness ==
    /\ phase = "output" /\ query = <<<<"a", "?", " ", "a", "?">>>>
    /\ \E i \in 1..Len(pdfChunks) : pdfChunks[i] = <<"A", "a", "b">>
    /\ retrieved = Returned(<<>>)

\* C7: when tokenization leaves no usable term (no term at all, or only empty
\* terms), retrieve returns an empty sequence, whatever the chunks are.
C7_NoUsableTerms ==
    (/\ phase = "output" /\ query # <<>>
     /\ \A t \in 1..Len(QueryTerms(query[1])) : QueryTerms(query[1])[t] = <<>>) =>
        retrieved = Returned(<<>>)

(***************************************************************************)
(* What the claims about loading speak of.                                 *)
(***************************************************************************)
\* the chunk sequence one load of the document produces
SingleLoadChunks == ChunkText(docText, <<>>, CHUNK_SIZE)

\* the loadPDF calls that were made
CallsMade == {c \in DOMAIN loadPc : loadPc[c] # "idle"}

\* C1: when loadPDF calls that all began before the first load completed have
\* all finished, and one of them succeeded, the chunk sequence is the sequence
\* of a single load: the chunking ran once and no chunk is there twice.
C1_ChunkingRunsOnce ==
    (/\ loadedOk
     /\ \A c \in CallsMade : loadPc[c] = "done" /\ ~loadAfterOk[c]) =>
        pdfChunks = SingleLoadChunks

\* C2: a loadPDF call made after a load has succeeded returns the cached text
\* at once: it never waits on fs.access, fs.readFile or pdfParse, the only path
\* on which pdfChunks is written, so the chunk sequence stays as it was.
C2_IdempotentLoad ==
    \A c \in CallsMade :
        loadAfterOk[c] => loadPc[c] = "done" /\ loadResult[c] = docText

(***************************************************************************)
(* What the claims about session memory and the chat handler speak of.     *)
(***************************************************************************)
\* the session identifier a request was issued with: the identifier of its
\* body, or the fixed default when the body has none
IssuedIdentifier(r) ==
    IF req[r].issuedAs = <<>> THEN "default" ELSE req[r].issuedAs[1]

\* the transcript of a session
Transcript(k) == sessionMemories[k].messages

\* the turns request r put into the transcript of session k
TurnsBy(r, k) == {i \in 1..Len(Transcript(k)) : Transcript(k)[i].by = r}

\* C8: every turn of a session's transcript was appended by an exchange issued
\* with that session's identifier; no turn shows up under another identifier.
C8_SessionIsolation ==
    \A k \in SessionKeys :
        \A i \in 1..Len(Transcript(k)) :
            IssuedIdentifier(Transcript(k)[i].by) = k

\* two exchanges, issued with different identifiers, have both been recorded
C8_Witness ==
    /\ \A k \in SessionKeys : Len(Transcript(k)) > 0
    /\ \E r, q \in Reqs :
           /\ r # q /\ req[r].pc = "done" /\ req[q].pc = "done"
           /\ IssuedIdentifier(r) # IssuedIdentifier(q)

\* s is a prefix of t
IsPrefix(s, t) == Len(s) <= Len(t) /\ SubSeq(t, 1, Len(s)) = s

\* C9: in every step each session stays in existence and its transcript before
\* the step is a prefix of its transcript after it: turns are only added, at
\* the end, and none is removed, reordered or changed.
C9_AppendOnly ==
    [][\A k \in SessionKeys :
          /\ sessionMemories[k].created => sessionMemories'[k].created
          /\ IsPrefix(sessionMemories[k].messages, sessionMemories'[k].messages)]_vars

\* a session whose transcript holds the turns of two exchanges, the second
\* exchange's behind the first's
C9_Witness ==
    \E k \in SessionKeys :
        /\ Len(Transcript(k)) >= 4
        /\ Transcript(k)[1].by # Transcript(k)[3].by
        /\ Transcript(k)[1].role = "user" /\ Transcript(k)[2].role = "assistant"
        /\ Transcript(k)[3].role = "user"

\* C10: a request whose completion call failed was answered with the failure
\* response, fallback reply and no sources, and no transcript holds a turn of
\* that request.
C10_FailureIsolation ==
    \A r \in Reqs :
        (req[r].pc = "done" /\ req[r].response.status = 500) =>
            /\ req[r].response.reply = FallbackReply
            /\ req[r].response.sources = <<>>
            /\ \A k \in SessionKeys : TurnsBy(r, k) = {}

\* the completion call of a request failed that had retrieved a chunk and a
\* web snippet, in a session that holds the turns of an earlier exchange
C10_Witness ==
    \E r \in Reqs :
        /\ req[r].pc = "done" /\ req[r].response.status = 500
        /\ Len(req[r].sources) = 2
        /\ Len(Transcript(req[r].sessionId)) > 0

(***************************************************************************)
(* Degraded mode: the session server with the source document absent.      *)
(***************************************************************************)
\* the request has been received
Received(r) == req[r].pc # "none"

\* the request's completion call succeeded and the success response was sent
Succeeded(r) == req[r].pc = "done" /\ req[r].response.status = 200

\* the system message of the messages handed to the completion call
SentSystemMessage(r) == req[r].messages[1]

ExchangeStarts(k) == {i \in 1..Len(Transcript(k)) : i % 2 = 1}

\* C12: whatever the interleaving of the requests of a session, its transcript
\* is a concatenation of whole exchanges: its turns pair up, a user turn
\* directly followed by the assistant turn of the same exchange, and every
\* request has no turn in it or exactly one such pair.
C12_SerializedAppends ==
    \A k \in SessionKeys :
        /\ Len(Transcript(k)) % 2 = 0
        /\ \A i \in ExchangeStarts(k) :
               /\ Transcript(k)[i].role = "user"
               /\ Transcript(k)[i + 1].role = "assistant"
               /\ Transcript(k)[i + 1].by = Transcript(k)[i].by
        /\ \A r \in Reqs :
               \/ TurnsBy(r, k) = {}
               \/ \E i \in ExchangeStarts(k) : TurnsBy(r, k) = {i, i + 1}

\* two requests of one session were in flight together (the one saved last
\* was sent no history), the later request was saved first, and the
\* transcript holds both exchanges
C12_Witness ==
    \E k \in SessionKeys :
        /\ Len(Transcript(k)) = 4
        /\ Transcript(k)[1].by > Transcript(k)[3].by
        /\ Succeeded(Transcript(k)[3].by)
        /\ Len(req[Transcript(k)[3].by].messages) = 2

\* C13: a request whose completion call succeeded has in its session's
\* transcript exactly two turns, the user turn with its message directly
\* followed by the assistant turn with the reply it was answered with, and no
\* turn in another transcript; a request that has not succeeded has no turn
\* anywhere; every transcript has even length and alternates user, assistant.
C13_WholeExchange ==
    /\ \A r \in Reqs :
           IF Received(r) /\ Succeeded(r)
           THEN LET transcript == Transcript(req[r].sessionId)
                    turns == TurnsBy(r, req[r].sessionId)
                IN /\ \E i \in turns :
                          /\ turns = {i, i + 1}
                          /\ transcript[i] =
                                 [role |-> "user", content |-> req[r].message,
                                  by |-> r]
                          /\ transcript[i + 1] =
                                 [role |-> "assistant",
                                  content |-> req[r].response.reply, by |-> r]
                   /\ \A k \in SessionKeys \ {req[r].sessionId} :
                          TurnsBy(r, k) = {}
           ELSE \A k \in SessionKeys : TurnsBy(r, k) = {}
    /\ \A k \in SessionKeys :
           /\ Len(Transcript(k)) % 2 = 0
           /\ \A i \in 1..Len(Transcript(k)) :
                  Transcript(k)[i].role = IF i % 2 = 1 THEN "user" ELSE "assistant"

\* a session in which one request succeeded and another failed: the transcript
\* holds the two turns of the one that succeeded
C13_Witness ==
    \E r, q \in Reqs :
        /\ Succeeded(r)
        /\ req[q].pc = "done" /\ req[q].response.status = 500
        /\ req[q].sessionId = req[r].sessionId
        /\ Len(Transcript(req[r].sessionId)) = 2

(***************************************************************************)
(* The messages handed to the completion call.                             *)
(***************************************************************************)
\* the request is awaiting the completion call or has been answered
Assembled(r) == req[r].pc \in {"invoke", "done"}

\* C14: in the step that hands a request's messages to the completion call,
\* the messages are one system message, then the transcript the session has
\* at that step, oldest turn first, then the user turn with the request's
\* message; no message behind the first is a system message.
C14_PromptAssembly ==
    [][\A r \in Reqs :
          (req[r].pc # "invoke" /\ req'[r].pc = "invoke") =>
              LET m == req'[r].messages
                  prior == sessionMemories[req'[r].sessionId].messages
              IN /\ Len(m) = Len(prior) + 2
                 /\ m[1].role = "system"
                 /\ \A i \in 1..Len(prior) : m[i + 1] = prior[i]
                 /\ m[Len(m)] = [role |-> "user", content |-> req'[r].message]
                 /\ \A i \in 2..Len(m) : m[i].role # "system"]_vars

\* a RAG request with sources awaits the completion call with the two turns
\* of an earlier exchange between its system message and its user turn
C14_Witness ==
    \E r \in Reqs :
        /\ req[r].pc = "invoke" /\ req[r].useRAG /\ req[r].sources # <<>>
        /\ Len(req[r].messages) = 4
        /\ req[r].messages[2].role = "user"
        /\ req[r].messages[3].role = "assistant"

\* the excerpts of a request: the retrieved chunks, then the web snippet
ObtainedSources(r) ==
    req[r].chunks \o
        (IF req[r].tavilySnippet = <<>> THEN <<>>
         ELSE << <<"(From Tavily Search)\n", req[r].tavilySnippet[1]>> >>)

\* the first n of the sources xs, a double newline between neighbours
RECURSIVE JoinedUpTo(_, _)
JoinedUpTo(xs, n) ==
    IF n = 0 THEN <<>>
    ELSE IF n = 1 THEN xs[1]
    ELSE JoinedUpTo(xs, n - 1) \o <<"\n\n">> \o xs[n]

\* C15: the system message sent for a request is the general instruction
\* exactly when RAG is off; the excerpt instruction, holding the retrieved
\* chunks and the web snippet joined by double newlines between the begin and
\* end markers, exactly when RAG is on and a chunk or a snippet was obtained;
\* the "don't know" instruction exactly when RAG is on and neither was.
C15_SystemMessageSelection ==
    \A r \in Reqs :
        (Received(r) /\ Assembled(r)) =>
            LET content == SentSystemMessage(r).content
                obtained == ObtainedSources(r)
                excerpts == <<ExcerptsInstruction>>
                                \o JoinedUpTo(obtained, Len(obtained))
                                \o <<EndOfExcerpts>>
            IN IF ~req[r].useRAG
               THEN content = <<GeneralInstruction>>
               ELSE IF obtained # <<>>
               THEN content = excerpts /\ content # <<DontKnowInstruction>>
               ELSE content = <<DontKnowInstruction>> /\ content # excerpts

\* one request was sent a chunk and a snippet as excerpts, another, whose
\* retrieval and web search gave nothing, the "don't know" instruction
C15_Witness ==
    \E r, q \in Reqs :
        /\ Assembled(r) /\ req[r].chunks # <<>> /\ req[r].tavilySnippet # <<>>
        /\ Assembled(q) /\ req[q].useRAG /\ req[q].chunks = <<>>
        /\ req[q].tavilySnippet = <<>>

\* C16: queryTavily returns null when the web search fails, as it does when
\* the search returns no answer.  Every step that ends a request's wait for
\* the web search without a snippet, the failed search included, leaves the
\* request awaiting the completion call, its sources the retrieved chunks
\* alone, its messages built from those sources, no response sent and no
\* transcript changed.
C16_SearchFailureAbsorbed ==
    [][\A r \in Reqs :
          (req[r].pc = "tavily" /\ req'[r].pc # "tavily"
              /\ req'[r].tavilySnippet = <<>>) =>
              /\ req'[r].pc = "invoke"
              /\ req'[r].sources = req[r].chunks
              /\ req'[r].messages =
                     <<SystemMessage(TRUE, req[r].chunks)>>
                         \o sessionMemories[req[r].sessionId].messages
                         \o <<[role |-> "user", content |-> req[r].message]>>
              /\ sessionMemories' = sessionMemories]_vars

\* a request whose web search ended without a snippet was answered with the
\* success response, its sources the chunk it retrieved
C16_Witness ==
    \E r \in Reqs :
        /\ Succeeded(r) /\ req[r].useRAG /\ req[r].tavilySnippet = <<>>
        /\ req[r].chunks # <<>>
        /\ req[r].response.sources = req[r].chunks

(***************************************************************************)
(* The score of a chunk and the terms it is computed from.                 *)
(***************************************************************************)
\* the places of s at which term occurs, letter case set aside
OccurrencesOf(term, s) ==
    {i \in 1..Len(s) :
        /\ i + Len(term) - 1 <= Len(s)
        /\ \A k \in 1..Len(term) : LowerChar(s[i + k - 1]) = LowerChar(term[k])}

\* no two occurrences of the set overlap
NonOverlapping(places, term) ==
    \A i, j \in places : i < j => i + Len(term) <= j

\* the number of non-overlapping occurrences of term in s: the scan from the
\* left takes as many as any choice of non-overlapping occurrences
OccurrenceCount(term, s) ==
    LET choices == {ps \in SUBSET OccurrencesOf(term, s) : NonOverlapping(ps, term)}
    IN CHOOSE n \in 0..Len(s) :
          /\ \E ps \in choices : Cardinality(ps) = n
          /\ \A ps \in choices : Cardinality(ps) <= n

\* the occurrences of the first n terms in s, a repeated term counted again
RECURSIVE OccurrenceSum(_, _, _)
OccurrenceSum(terms, n, s) ==
    IF n = 0 THEN 0
    ELSE OccurrenceSum(terms, n - 1, s) + OccurrenceCount(terms[n], s)

\* the term is made of letters
IsPlainTerm(term) == term # <<>> /\ \A k \in 1..Len(term) : term[k] \in {"a", "b"}

\* C17: when every query term is made of letters, the score of a chunk is the
\* sum over the terms, a repeated term counted once per repetition, of the
\* number of non-overlapping case-insensitive occurrences of the term in the
\* chunk; it is a natural number.
C17_ScoreValue ==
    (/\ phase = "scored"
     /\ \A t \in 1..Len(retrieved.queryTerms) : IsPlainTerm(retrieved.queryTerms[t])) =>
        \A i \in 1..Len(retrieved.scoredChunks) :
            /\ retrieved.scoredChunks[i].score \in Nat
            /\ retrieved.scoredChunks[i].score =
                   OccurrenceSum(retrieved.queryTerms, Len(retrieved.queryTerms),
                                 retrieved.scoredChunks[i].chunk)

\* the chunk "aAaa" scored with the term "aa" twice: two non-overlapping
\* occurrences of the three there are, counted for each repetition
C17_Witness ==
    /\ phase = "scored"
    /\ retrieved.queryTerms = << <<"a", "a">>, <<"a", "a">> >>
    /\ retrieved.scoredChunks[1].chunk = <<"a", "A", "a", "a">>
    /\ retrieved.scoredChunks[1].score = 4

\* C18: every term the chunks are scored with is lowercase, holds no
\* punctuation character and is longer than two characters.
C18_QueryTermShape ==
    phase = "scored" =>
        \A t \in 1..Len(retrieved.queryTerms) :
            LET term == retrieved.queryTerms[t]
            IN /\ Len(term) > 2
               /\ \A k \in 1..Len(term) :
                      term[k] \notin Punctuation \cup {"A", "B"}

(***************************************************************************)
(* What the steps of a chat request change.                                *)
(***************************************************************************)
\* the step is the save and response of request r after chatModel.invoke
\* resolved
SaveStep(r) ==
    /\ req[r].pc = "invoke"
    /\ req'[r].pc = "done"
    /\ req'[r].response.status = 200

\* C19: a step of a chat request (retrieval, web search, prompt assembly, a
\* failed or a successful completion) leaves the document text and the chunk
\* sequence unchanged; a step that changes a transcript is the save after a
\* successful completion, and it changes the transcript of that request's
\* session only.
C19_Frame ==
    [][/\ req' # req => (pdfText' = pdfText /\ pdfChunks' = pdfChunks)
       /\ \A k \in SessionKeys :
              sessionMemories'[k].messages # sessionMemories[k].messages =>
                  \E r \in Reqs : SaveStep(r) /\ req[r].sessionId = k]_vars

\* the chunks are loaded and a transcript is written; one request holds a
\* chunk and the web snippet as its sources, another one's completion failed
C19_Witness ==
    /\ pdfChunks # <<>>
    /\ \E k \in SessionKeys : Len(Transcript(k)) = 2
    /\ \E r, q \in Reqs :
           /\ Assembled(r) /\ req[r].chunks # <<>>
           /\ Len(req[r].sources) = Len(req[r].chunks) + 1
           /\ req[q].pc = "done" /\ req[q].response.status = 500

\* the place of request r's user turn in the transcript of its session
UserTurnOf(r) ==
    CHOOSE i \in TurnsBy(r, req[r].sessionId) :
        Transcript(req[r].sessionId)[i].role = "user"

\* the history between the system message and the user turn of the messages
\* sent for request r
SentHistory(r) == SubSeq(req[r].messages, 2, Len(req[r].messages) - 1)

\* C20: for every exchange in a transcript, the turns before its user turn
\* are the history that was sent to the model for that exchange.
C20_TranscriptAsSent ==
    \A r \in Reqs :
        (Received(r) /\ Succeeded(r)) =>
            SubSeq(Transcript(req[r].sessionId), 1, UserTurnOf(r) - 1) = SentHistory(r)

(***************************************************************************)
(* Retrieval while the startup load is pending.                            *)
(***************************************************************************)
\* the complete chunk sequence of the document
CompleteChunks == ChunkText(docText, <<>>, CHUNK_SIZE)

\* C21: with the document present and parseable, what a RAG request with a
\* message retrieved is what retrieval over the complete chunk sequence of
\* the document gives, whenever the request was received.
C21_RetrievalOverCompleteChunks ==
    fileState = "present" =>
        \A r \in Reqs :
            (Received(r) /\ req[r].useRAG /\ req[r].message # <<>>) =>
                /\ req[r].pc # "crashed"
                /\ req[r].chunks =
                       RetrieveRelevantContent(CompleteChunks, req[r].message).value

(***************************************************************************)
(* The webapi handler's reading of what loadPDF returned.                  *)
(***************************************************************************)
\* the webapi request's messages have been built
WebAssembled(r) == req[r].pc \in {"invoke", "done"}

\* C22: a RAG request of the webapi server is sent the "could not access the
\* handbook" system message, with no sources, exactly when the load failed:
\* the file is missing or does not parse.
C22_LoadFailureClassification ==
    \A r \in WebReqs :
        (WebAssembled(r) /\ req[r].useRAG) =>
            /\ req[r].messages[1].kind = "noAccess" <=> fileState # "present"
            /\ req[r].messages[1].kind = "noAccess" => req[r].sources = <<>>

(***************************************************************************)
(* The response of a chat request.                                         *)
(***************************************************************************)
\* the handler of request r awaits the web search or the completion call
AwaitingExternalCall(r) == req[r].pc \in {"tavily", "invoke"}

\* the handler of request r has sent its one response, the success response
\* or the failure response
Responded(r) ==
    /\ req[r].pc = "done"
    /\ \/ req[r].response.status = 200 /\ Len(req[r].response.reply) = 1
       \/ req[r].response = [status |-> 500, error |-> "Model call failed",
                             reply |-> FallbackReply, sources |-> <<>>]

\* C23: a request that was received has been sent its response by the handler
\* or its handler awaits an external call, whose return or failure leads on
\* to the response; no request is left with a handler that has ended without
\* a response.
C23_EveryRequestAnswered ==
    \A r \in Reqs : Received(r) => (AwaitingExternalCall(r) \/ Responded(r))

====
